---- MODULE Spec2Model ----
(***************************************************************************)
(* Model of the read-only subscription API: config.py (Config.validate),   *)
(* blockchain.py (BlockchainService, the Chain Reader) and app.py (the     *)
(* Flask gateway: start-up checks, helpers and the five routes).           *)
(*                                                                         *)
(* Strings that the code inspects character by character (addresses) are   *)
(* sequences of one-character strings; Str turns them into a string where  *)
(* the code embeds them in a message.  Every remote read is one step, so   *)
(* that external transactions can interleave with the reads of a request.  *)
(***************************************************************************)
EXTENDS Integers, Sequences, FiniteSets, TLC

VARIABLES phase, env, blockchain_service, chain, txns, req, resp, prev, fmt

vars == <<phase, env, blockchain_service, chain, txns, req, resp, prev, fmt>>

(***************************************************************************)
(* Bounds of the model                                                     *)
(***************************************************************************)
\* external (wallet-signed) transactions that may hit the contract
MaxExternalTxns == 2
\* days, hours and minutes each range over 0..MaxUnits in the duration inputs
MaxUnits == 2

(***************************************************************************)
(* Characters and strings                                                  *)
(***************************************************************************)
HexLower == {"0", "1", "2", "3", "4", "5", "6", "7", "8", "9",
             "a", "b", "c", "d", "e", "f"}

\* str.lower() on one character (only the letters the inputs use)
LowerChar(c) ==
    CASE c = "A" -> "a" [] c = "B" -> "b" [] c = "C" -> "c"
      [] c = "D" -> "d" [] c = "E" -> "e" [] c = "F" -> "f"
      [] c = "G" -> "g" [] c = "H" -> "h" [] c = "X" -> "x"
      [] OTHER -> c

\* str.upper() on one character
UpperChar(c) ==
    CASE c = "a" -> "A" [] c = "b" -> "B" [] c = "c" -> "C"
      [] c = "d" -> "D" [] c = "e" -> "E" [] c = "f" -> "F"
      [] c = "g" -> "G" [] c = "h" -> "H" [] c = "x" -> "X"
      [] OTHER -> c

Lower(s) == [i \in 1..Len(s) |-> LowerChar(s[i])]

\* value of a lowercase hex digit
HexVal(c) ==
    CASE c = "0" -> 0 [] c = "1" -> 1 [] c = "2" -> 2 [] c = "3" -> 3
      [] c = "4" -> 4 [] c = "5" -> 5 [] c = "6" -> 6 [] c = "7" -> 7
      [] c = "8" -> 8 [] c = "9" -> 9 [] c = "a" -> 10 [] c = "b" -> 11
      [] c = "c" -> 12 [] c = "d" -> 13 [] c = "e" -> 14 [] c = "f" -> 15
      [] OTHER -> 0

RECURSIVE Str(_)
\* the Python string spelled by a sequence of characters
Str(s) == IF s = <<>> THEN "" ELSE Head(s) \o Str(Tail(s))

\* n copies of the character "0"
Zeros(n) == [i \in 1..n |-> "0"]

\* str.startswith('0x')
StartsWith0x(s) == Len(s) >= 2 /\ s[1] = "0" /\ s[2] = "x"

\* Python None
None == "None"

(***************************************************************************)
(* app.py helpers                                                          *)
(***************************************************************************)
\* len(address) != 42
AddrLen == 42

validate_address_no_length(address) ==
    IF address = <<>> THEN [is_valid |-> FALSE, error |-> "Address is required"]
    ELSE IF ~StartsWith0x(address)
         THEN [is_valid |-> FALSE, error |-> "Address must start with 0x"]
    ELSE [is_valid |-> TRUE, error |-> None]

validate_address(address) ==
    IF address = <<>> THEN [is_valid |-> FALSE, error |-> "Address is required"]
    ELSE IF ~StartsWith0x(address)
         THEN [is_valid |-> FALSE, error |-> "Address must start with 0x"]
    ELSE IF Len(address) # AddrLen
         THEN [is_valid |-> FALSE, error |-> "Address must be 42 characters long"]
    ELSE [is_valid |-> TRUE, error |-> None]

\* f"{n} unit{'s' if n != 1 else ''}"
Plural(n, unit) == ToString(n) \o " " \o unit \o (IF n # 1 THEN "s" ELSE "")

PluralAlways(n, unit) == ToString(n) \o " " \o unit \o "s"

RECURSIVE JoinComma(_)
\* ", ".join(parts)
JoinComma(parts) ==
    IF parts = <<>> THEN ""
    ELSE IF Len(parts) = 1 THEN parts[1]
    ELSE parts[1] \o ", " \o JoinComma(Tail(parts))

format_duration_always_plural(seconds) ==
    IF seconds = 0 THEN "Expired"
    ELSE LET days    == seconds \div 86400
             hours   == (seconds % 86400) \div 3600
             minutes == (seconds % 3600) \div 60
             parts   == (IF days > 0 THEN <<PluralAlways(days, "day")>> ELSE <<>>)
                        \o (IF hours > 0 THEN <<PluralAlways(hours, "hour")>> ELSE <<>>)
                        \o (IF minutes > 0 THEN <<PluralAlways(minutes, "minute")>> ELSE <<>>)
         IN  IF parts # <<>> THEN JoinComma(parts) ELSE "Less than a minute"

format_duration(seconds) ==
    IF seconds = 0 THEN "Expired"
    ELSE LET days    == seconds \div 86400
             hours   == (seconds % 86400) \div 3600
             minutes == (seconds % 3600) \div 60
             parts   == (IF days > 0 THEN <<Plural(days, "day")>> ELSE <<>>)
                        \o (IF hours > 0 THEN <<Plural(hours, "hour")>> ELSE <<>>)
                        \o (IF minutes > 0 THEN <<Plural(minutes, "minute")>> ELSE <<>>)
         IN  IF parts # <<>> THEN JoinComma(parts) ELSE "Less than a minute"

\* "%02d"
Pad2(n) == IF n < 10 THEN "0" \o ToString(n) ELSE ToString(n)

\* "%04d" (years of the inputs have four digits)
Pad4(n) == IF n < 10 THEN "000" \o ToString(n)
           ELSE IF n < 100 THEN "00" \o ToString(n)
           ELSE IF n < 1000 THEN "0" \o ToString(n)
           ELSE ToString(n)

\* proleptic Gregorian date of a day count since 1970-01-01
CivilFromDays(days) ==
    LET z   == days + 719468
        era == z \div 146097
        doe == z - era * 146097
        yoe == (doe - doe \div 1460 + doe \div 36524 - doe \div 146096) \div 365
        doy == doe - (365 * yoe + yoe \div 4 - yoe \div 100)
        mp  == (5 * doy + 2) \div 153
        d   == doy - (153 * mp + 2) \div 5 + 1
        m   == IF mp < 10 THEN mp + 3 ELSE mp - 9
        y   == yoe + era * 400 + (IF m <= 2 THEN 1 ELSE 0)
    IN  [year |-> y, month |-> m, day |-> d]

\* strftime('%Y-%m-%d %H:%M:%S UTC') of the wall clock that is `secs`
\* seconds after 1970-01-01 00:00:00
Strftime(secs) ==
    LET date == CivilFromDays(secs \div 86400)
        sod  == secs % 86400
    IN  Pad4(date.year) \o "-" \o Pad2(date.month) \o "-" \o Pad2(date.day)
        \o " " \o Pad2(sod \div 3600) \o ":" \o Pad2((sod % 3600) \div 60)
        \o ":" \o Pad2(sod % 60) \o " UTC"

\* datetime.fromtimestamp(timestamp) with no tz argument is the local wall
\* clock of the server: the timestamp shifted by the server's UTC offset
format_timestamp(timestamp, utcoffset) ==
    IF timestamp = 0 THEN "Never subscribed"
    ELSE Strftime(timestamp + utcoffset)

(***************************************************************************)
(* Addresses the requests and the configuration draw from                  *)
(***************************************************************************)
Prefix0x == <<"0", "x">>

\* wallet 1 in two spellings that differ only in the case of hex digits
W1Lower == Prefix0x \o <<"a", "b", "c">> \o Zeros(37)
W1Mixed == Prefix0x \o <<"a", "B", "C">> \o Zeros(37)
\* wallet 2
W2Lower == Prefix0x \o <<"1", "f">> \o Zeros(38)
\* 42 characters, '0x' prefix, but not hexadecimal; the two spellings differ
\* in the case of the hex digit
NonHexLower == Prefix0x \o <<"g", "a">> \o Zeros(38)
NonHexUpper == Prefix0x \o <<"g", "A">> \o Zeros(38)
\* the deployed contract, as configured
ContractLower == Prefix0x \o <<"d", "e">> \o Zeros(38)

\* path parameters of the per-wallet routes; '/status/<wallet_address>' only
\* matches a non-empty segment
RequestAddresses ==
    { <<"a", "b", "c", "d">>,                  \* no prefix, short
      <<"a", "b">> \o Zeros(40),               \* no prefix, 42 characters
      <<"0", "X">> \o Zeros(40),               \* upper-case prefix, 42 characters
      Prefix0x \o Zeros(39),                   \* 41 characters
      Prefix0x \o Zeros(41),                   \* 43 characters
      W1Lower, W1Mixed, W2Lower,
      NonHexLower, NonHexUpper }

(***************************************************************************)
(* web3 / eth_utils as used by blockchain.py                               *)
(***************************************************************************)
RECURSIVE DigestSum(_)
DigestSum(s) == IF s = <<>> THEN 0 ELSE HexVal(Head(s)) + DigestSum(Tail(s))

\* Nibble i of the digest of the lower-case hex digits, from the digit sum.
\* The real digest is keccak-256; what the model keeps is that it is a fixed
\* function of the lower-case digits and the position.
DigestNibble(sum, i) == (sum * 7 + i * 5) % 16

\* the 40 digits of an address string, without the optional prefix
StripPrefix(s) ==
    IF Len(s) >= 2 /\ s[1] = "0" /\ LowerChar(s[2]) = "x"
    THEN SubSeq(s, 3, Len(s)) ELSE s

to_checksum_address_keep_case(value) ==
    LET digits == StripPrefix(value)
    IN  IF Len(digits) = 40 /\ \A i \in 1..40 : LowerChar(digits[i]) \in HexLower
        THEN [ok |-> TRUE, value |-> Prefix0x \o digits]
        ELSE [ok |-> FALSE, value |-> <<>>]

\* Web3.to_checksum_address: lower-case the digits, reject what is not 40 hex
\* digits (ValueError), then upper-case the letters the digest selects
to_checksum_address(value) ==
    LET lower == Lower(StripPrefix(value))
        sum   == DigestSum(lower)
    IN  IF Len(lower) = 40 /\ \A i \in 1..40 : lower[i] \in HexLower
        THEN [ok |-> TRUE,
              value |-> Prefix0x \o
                  [i \in 1..40 |->
                      IF DigestNibble(sum, i) >= 8
                      THEN UpperChar(lower[i]) ELSE lower[i]]]
        ELSE [ok |-> FALSE, value |-> <<>>]

\* the accounts that transact with the contract
Wallets == {to_checksum_address(W1Lower).value}

\* self.w3.from_wei(n, 'ether'): the exact decimal n / 10^18
from_wei(n) == [num |-> n, den |-> "10^18"]

\* Python true division n / d, kept exact
TrueDiv(n, d) == [num |-> n, den |-> d]

\* outcome of one remote read: an answer, a failure whose exception class
\* derives from ValueError (requests' JSONDecodeError on a non-JSON reply), or
\* one that does not (requests' ConnectionError)
RemoteOutcomes == {"ok", "JSONDecodeError", "ConnectionError"}

ValueErrorClasses == {"ValueError", "JSONDecodeError"}

\* isinstance(e, ValueError)
IsValueError(exc) == exc.type \in ValueErrorClasses

\* an exception raised by the code of this program
Raised(type, msg) == [type |-> type, msg |-> msg, raw |-> FALSE]

\* the exception object the transport raised, travelling unchanged
TransportError(outcome) ==
    [type |-> outcome, msg |-> "remote read failed", raw |-> TRUE]

NoExc == [type |-> "none", msg |-> "", raw |-> FALSE]

\* the record of an account that never subscribed (a Solidity mapping reads
\* as zero for a key it has no entry for)
NeverRecord == [isActive |-> FALSE, expiry |-> 0, remaining |-> 0]

WalletRecord(arg, ch) ==
    IF arg \in DOMAIN ch.wallets THEN ch.wallets[arg] ELSE NeverRecord

\* what contract.functions.<fn>(arg).call() answers in chain state ch
RemoteValue(fn, arg, ch) ==
    CASE fn = "isActive"              -> WalletRecord(arg, ch).isActive
      [] fn = "getExpiry"             -> WalletRecord(arg, ch).expiry
      [] fn = "getRemainingTime"      -> WalletRecord(arg, ch).remaining
      [] fn = "SUBSCRIPTION_PRICE"    -> ch.price
      [] fn = "SUBSCRIPTION_DURATION" -> ch.duration
      [] fn = "totalSubscribers"      -> ch.totalSubscribers
      [] fn = "totalRevenue"          -> ch.totalRevenue
      [] fn = "getBalance"            -> ch.balance

\* .call() is an eth_call: it executes against the node's state and leaves it
\* as it is
ChainAfterTransact(fn, ch) ==
    [ch EXCEPT !.balance = ch.balance + 1]

ChainAfterCall(fn, ch) == ch

\* the record of one remote read
ReadEntry(fn, outcome) == [fn |-> fn, kind |-> "call", outcome |-> outcome]

(***************************************************************************)
(* blockchain.py: the read-only methods of BlockchainService               *)
(***************************************************************************)
\* the shared body of the three per-wallet methods: normalise, read once,
\* turn every ValueError of the try block into "Invalid wallet address"
WalletMethod(fn, wallet_address, outcome, ch) ==
    LET cs == to_checksum_address(wallet_address)
        invalid == Raised("ValueError",
                          "Invalid wallet address: " \o Str(wallet_address))
    IN  IF ~cs.ok
        THEN [raised |-> TRUE, value |-> 0, exc |-> invalid, normalized |-> FALSE]
        ELSE IF outcome = "ok"
        THEN [raised |-> FALSE, value |-> RemoteValue(fn, cs.value, ch),
              exc |-> NoExc, normalized |-> TRUE]
        ELSE IF outcome \in ValueErrorClasses
        THEN [raised |-> TRUE, value |-> 0, exc |-> invalid, normalized |-> TRUE]
        ELSE [raised |-> TRUE, value |-> 0, exc |-> TransportError(outcome),
              normalized |-> TRUE]

BlockchainService_is_subscription_active(wallet_address, outcome, ch) ==
    WalletMethod("isActive", wallet_address, outcome, ch)

BlockchainService_get_subscription_expiry(wallet_address, outcome, ch) ==
    WalletMethod("getExpiry", wallet_address, outcome, ch)

BlockchainService_get_remaining_time(wallet_address, outcome, ch) ==
    WalletMethod("getRemainingTime", wallet_address, outcome, ch)

\* the remote function each per-wallet method reads
MethodFn(method) ==
    CASE method = "is_subscription_active"  -> "isActive"
      [] method = "get_subscription_expiry" -> "getExpiry"
      [] method = "get_remaining_time"      -> "getRemainingTime"

MethodResult(method, wallet_address, outcome, ch) ==
    CASE method = "is_subscription_active" ->
            BlockchainService_is_subscription_active(wallet_address, outcome, ch)
      [] method = "get_subscription_expiry" ->
            BlockchainService_get_subscription_expiry(wallet_address, outcome, ch)
      [] method = "get_remaining_time" ->
            BlockchainService_get_remaining_time(wallet_address, outcome, ch)

\* the remote reads of get_contract_stats, in the order the dict literal
\* evaluates them
StatsReads ==
    << "SUBSCRIPTION_PRICE", "SUBSCRIPTION_PRICE",
       "SUBSCRIPTION_DURATION", "SUBSCRIPTION_DURATION",
       "totalSubscribers",
       "totalRevenue", "totalRevenue",
       "getBalance", "getBalance" >>

\* the dict get_contract_stats returns from the values v of its reads
StatsDict(v, contract_address) ==
    [ subscription_price_wei        |-> v[1],
      subscription_price_eth        |-> from_wei(v[2]),
      subscription_duration_seconds |-> v[3],
      subscription_duration_days    |-> TrueDiv(v[4], 86400),
      total_subscribers             |-> v[5],
      total_revenue_wei             |-> v[6],
      total_revenue_eth             |-> from_wei(v[7]),
      contract_balance_wei          |-> v[8],
      contract_balance_eth          |-> from_wei(v[9]),
      contract_address              |-> Str(contract_address) ]

\* except Exception as e: raise Exception(f"Error fetching contract stats: ...")
StatsFailure_reraise(outcome) == TransportError(outcome)

StatsFailure(outcome) ==
    Raised("Exception", "Error fetching contract stats: " \o outcome)

(***************************************************************************)
(* Start-up: config.py, the singleton of blockchain.py, the checks at the  *)
(* top of app.py                                                           *)
(***************************************************************************)
\* 40 hex digits without the prefix: web3 normalises it, Config rejects it
ContractNoPrefix == <<"d", "e">> \o Zeros(38)

\* os.getenv(name): unset (None) or the string
Unset == [set |-> FALSE, value |-> <<>>]

Setting(v) == [set |-> TRUE, value |-> v]

TzOffsets == {0 - 18000, 0, 3600}

Environments ==
    [ SEPOLIA_RPC_URL  : {None, "https://rpc.example"},
      CONTRACT_ADDRESS : {Unset, Setting(ContractNoPrefix), Setting(ContractLower),
                          Setting(Prefix0x \o Zeros(3))},
      connected        : BOOLEAN,
      abi              : {"ok", "missing", "malformed"},
      utcoffset        : TzOffsets ]

Config_validate_no_prefix(e) ==
    /\ e.SEPOLIA_RPC_URL # None
    /\ e.CONTRACT_ADDRESS.set /\ e.CONTRACT_ADDRESS.value # <<>>

\* Config.validate(): TRUE when it returns, FALSE when it raises ValueError
Config_validate(e) ==
    /\ e.SEPOLIA_RPC_URL # None
    /\ e.CONTRACT_ADDRESS.set /\ e.CONTRACT_ADDRESS.value # <<>>
    /\ StartsWith0x(e.CONTRACT_ADDRESS.value)

\* BlockchainService() inside try/except Exception: the object, or None when
\* the connection is not live, the address does not normalise (TypeError for
\* None, ValueError for a malformed string) or the ABI file does not load
NoService == [contract_address |-> <<>>, none |-> TRUE]

BlockchainService_init(e) ==
    IF /\ e.connected
       /\ e.CONTRACT_ADDRESS.set
       /\ to_checksum_address(e.CONTRACT_ADDRESS.value).ok
       /\ e.abi = "ok"
    THEN [contract_address |-> to_checksum_address(e.CONTRACT_ADDRESS.value).value,
          none |-> FALSE]
    ELSE NoService

ServiceAvailable_unchecked(service) == TRUE

\* not (blockchain_service is None)
ServiceAvailable(service) == ~service.none

(***************************************************************************)
(* The chain, as far as the contract's read interface shows it             *)
(***************************************************************************)
ChainInit ==
    [ wallets          |-> [w \in Wallets |-> NeverRecord],
      price            |-> 1000,
      duration         |-> 2592000,
      totalSubscribers |-> 0,
      totalRevenue     |-> 0,
      balance          |-> 0 ]

ActiveRecords ==
    { [isActive |-> TRUE, expiry |-> 1737216000, remaining |-> 90000],
      [isActive |-> TRUE, expiry |-> 1737133261, remaining |-> 3661] }

(***************************************************************************)
(* Requests and responses                                                  *)
(***************************************************************************)
Idle == [route |-> "idle", addr |-> <<>>, pc |-> 0, vals |-> <<>>,
         reads |-> <<>>, ops |-> <<>>, epoch0 |-> 0]

NoResp == [route |-> "none", addr |-> <<>>, status |-> 0, body |-> [none |-> TRUE],
           reads |-> <<>>, ops |-> <<>>, epoch |-> 0 - 1]

WalletRoutes == {"/status", "/expiry", "/remaining"}

\* the Chain Reader methods a route calls, in order
RouteMethods(route) ==
    CASE route = "/status"    -> <<"is_subscription_active",
                                   "get_subscription_expiry",
                                   "get_remaining_time">>
      [] route = "/expiry"    -> <<"get_subscription_expiry">>
      [] route = "/remaining" -> <<"get_remaining_time">>

\* the jsonify(...) of a per-wallet route that got all its values
SuccessBody(route, addr, vals, utcoffset) ==
    CASE route = "/status" ->
            [ wallet_address    |-> Str(addr),
              is_active         |-> vals[1],
              expiry_timestamp  |-> vals[2],
              expiry_date       |-> format_timestamp(vals[2], utcoffset),
              remaining_seconds |-> vals[3],
              remaining_time    |-> format_duration(vals[3]) ]
      [] route = "/expiry" ->
            [ wallet_address   |-> Str(addr),
              expiry_timestamp |-> vals[1],
              expiry_date      |-> format_timestamp(vals[1], utcoffset) ]
      [] route = "/remaining" ->
            [ wallet_address    |-> Str(addr),
              remaining_seconds |-> vals[1],
              remaining_time    |-> format_duration(vals[1]) ]

GenericError == [error |-> "Internal server error"]

WalletExcept_leak(exc) ==
    IF IsValueError(exc)
    THEN [status |-> 400, body |-> [error |-> exc.msg]]
    ELSE [status |-> 500, body |-> [error |-> exc.msg]]

\* the two except clauses of a per-wallet route
WalletExcept(exc) ==
    IF IsValueError(exc)
    THEN [status |-> 400, body |-> [error |-> exc.msg]]
    ELSE [status |-> 500, body |-> GenericError]

StatsExcept_leak(exc) == [status |-> 500, body |-> [error |-> exc.msg]]

\* the except clause of /stats
StatsExcept(exc) == [status |-> 500, body |-> GenericError]

\* a response leaves the handler; epoch is the number of external
\* transactions so far when none happened during the request, else -1
Respond(route, addr, status, body, reads, ops, epoch0) ==
    /\ resp' = [route |-> route, addr |-> addr, status |-> status, body |-> body,
                reads |-> reads, ops |-> ops,
                epoch |-> IF epoch0 = txns THEN txns ELSE 0 - 1]
    /\ req' = Idle

(***************************************************************************)
(* Initial state: the module imports have not run yet                      *)
(***************************************************************************)
NoFmt == [fn |-> "none", arg |-> 0, out |-> ""]

Init ==
    /\ env \in Environments
    /\ phase = "import_blockchain"
    /\ blockchain_service = NoService
    /\ chain = ChainInit
    /\ txns = 0
    /\ req = Idle
    /\ resp = NoResp
    /\ prev = NoResp
    /\ fmt = NoFmt

(***************************************************************************)
(* Start-up steps                                                          *)
(***************************************************************************)
\* app.py:25 `from blockchain import blockchain_service`
ImportBlockchain ==
    /\ phase = "import_blockchain"
    /\ blockchain_service' = BlockchainService_init(env)
    /\ phase' = "validate_config"
    /\ UNCHANGED <<env, chain, txns, req, resp, prev, fmt>>

\* app.py:34-39 Config.validate() or exit(1)
StartupValidate ==
    /\ phase = "validate_config"
    /\ phase' = IF Config_validate(env) THEN "check_service" ELSE "exited"
    /\ UNCHANGED <<env, blockchain_service, chain, txns, req, resp, prev, fmt>>

\* app.py:42-44 exit(1) when the singleton is None; otherwise the routes are
\* registered and the server runs
StartupCheckService ==
    /\ phase = "check_service"
    /\ phase' = IF ServiceAvailable(blockchain_service) THEN "serving" ELSE "exited"
    /\ UNCHANGED <<env, blockchain_service, chain, txns, req, resp, prev, fmt>>

(***************************************************************************)
(* Routes                                                                  *)
(***************************************************************************)
\* GET /health
health_check ==
    /\ phase = "serving" /\ req = Idle
    /\ Respond("/health", <<>>, 200,
               [ status           |-> "healthy",
                 service          |-> "Decentralized Subscription API",
                 blockchain       |-> "Sepolia Testnet",
                 contract_address |-> Str(blockchain_service.contract_address) ],
               <<>>, <<>>, txns)
    /\ UNCHANGED <<phase, env, blockchain_service, chain, txns, prev, fmt>>

\* the head of a per-wallet handler: validate_address, 400 or go on to the
\* first Chain Reader call.  resp is the answer to the latest request, so it
\* is void while a new one is in flight.
RouteEnter(route, wallet_address) ==
    /\ phase = "serving" /\ req = Idle
    /\ wallet_address # <<>>
    /\ LET v == validate_address(wallet_address)
       IN  IF ~v.is_valid
           THEN Respond(route, wallet_address, 400, [error |-> v.error],
                        <<>>, <<>>, txns)
           ELSE /\ req' = [route |-> route, addr |-> wallet_address, pc |-> 1,
                           vals |-> <<>>, reads |-> <<>>, ops |-> <<>>,
                           epoch0 |-> txns]
                /\ resp' = NoResp
    /\ UNCHANGED <<phase, env, blockchain_service, chain, txns, fmt>>

\* GET /status/<wallet_address>
get_subscription_status(wallet_address) ==
    RouteEnter("/status", wallet_address) /\ UNCHANGED prev

\* GET /expiry/<wallet_address>
get_subscription_expiry(wallet_address) ==
    RouteEnter("/expiry", wallet_address) /\ UNCHANGED prev

\* GET /remaining/<wallet_address>
get_remaining_time(wallet_address) ==
    RouteEnter("/remaining", wallet_address) /\ UNCHANGED prev

\* @app.errorhandler(404): a path that matches no route, such as a per-wallet
\* route with an empty address segment ('/status/') or '/unknown'
not_found(route) ==
    /\ phase = "serving" /\ req = Idle
    /\ Respond(route, <<>>, 404,
               [ error |-> "Endpoint not found",
                 available_endpoints |->
                     << "GET /health",
                        "GET /status/<wallet_address>",
                        "GET /expiry/<wallet_address>",
                        "GET /remaining/<wallet_address>",
                        "GET /stats" >> ],
               <<>>, <<>>, txns)
    /\ UNCHANGED <<phase, env, blockchain_service, chain, txns, prev, fmt>>

\* the in-flight per-wallet handler makes its next Chain Reader call and runs
\* on to the following call, to its return or into its except clauses
RouteCall(method) ==
    /\ phase = "serving"
    /\ req.route \in WalletRoutes
    /\ RouteMethods(req.route)[req.pc] = method
    /\ \E outcome \in (IF to_checksum_address(req.addr).ok
                       THEN RemoteOutcomes ELSE {"not called"}) :
         LET r     == MethodResult(method, req.addr, outcome, chain)
             reads == IF r.normalized
                      THEN Append(req.reads, ReadEntry(MethodFn(method), outcome))
                      ELSE req.reads
             ops   == Append(req.ops, [method |-> method, raised |-> r.raised,
                                       exc |-> r.exc, normalized |-> r.normalized,
                                       reads |-> IF r.normalized
                                                 THEN <<MethodFn(method)>> ELSE <<>>])
             vals  == Append(req.vals, r.value)
         IN  /\ chain' = IF r.normalized
                         THEN ChainAfterCall(MethodFn(method), chain) ELSE chain
             /\ IF r.raised
                THEN Respond(req.route, req.addr, WalletExcept(r.exc).status,
                             WalletExcept(r.exc).body, reads, ops, req.epoch0)
                ELSE IF req.pc < Len(RouteMethods(req.route))
                THEN /\ req' = [req EXCEPT !.pc = req.pc + 1, !.vals = vals,
                                           !.reads = reads, !.ops = ops]
                     /\ resp' = resp
                ELSE Respond(req.route, req.addr, 200,
                             SuccessBody(req.route, req.addr, vals, env.utcoffset),
                             reads, ops, req.epoch0)
    /\ UNCHANGED <<phase, env, blockchain_service, txns, prev, fmt>>

call_is_subscription_active == RouteCall("is_subscription_active")

call_get_subscription_expiry == RouteCall("get_subscription_expiry")

call_get_remaining_time == RouteCall("get_remaining_time")

\* GET /stats: the handler calls blockchain_service.get_contract_stats()
get_contract_stats ==
    /\ phase = "serving" /\ req = Idle
    /\ req' = [route |-> "/stats", addr |-> <<>>, pc |-> 1, vals |-> <<>>,
               reads |-> <<>>, ops |-> <<>>, epoch0 |-> txns]
    /\ resp' = NoResp
    /\ UNCHANGED <<phase, env, blockchain_service, chain, txns, prev, fmt>>

\* BlockchainService.get_contract_stats makes its next remote read; after the
\* last one it returns the dict and the route answers 200; a failed read is
\* wrapped and the route answers from its except clause
BlockchainService_get_contract_stats ==
    /\ phase = "serving"
    /\ req.route = "/stats"
    /\ \E outcome \in RemoteOutcomes :
         LET fn    == StatsReads[req.pc]
             reads == Append(req.reads, ReadEntry(fn, outcome))
             vals  == Append(req.vals, RemoteValue(fn, fn, chain))
             fns   == [i \in 1..req.pc |-> StatsReads[i]]
             op(raised, exc) == [method |-> "get_contract_stats", raised |-> raised,
                                 exc |-> exc, normalized |-> TRUE, reads |-> fns]
         IN  /\ chain' = ChainAfterCall(fn, chain)
             /\ IF outcome # "ok"
                THEN LET e == StatsFailure(outcome)
                     IN  Respond("/stats", <<>>, StatsExcept(e).status,
                                 StatsExcept(e).body, reads, <<op(TRUE, e)>>,
                                 req.epoch0)
                ELSE IF req.pc < Len(StatsReads)
                THEN /\ req' = [req EXCEPT !.pc = req.pc + 1, !.vals = vals,
                                           !.reads = reads]
                     /\ resp' = resp
                ELSE Respond("/stats", <<>>, 200,
                             StatsDict(vals, blockchain_service.contract_address),
                             reads, <<op(FALSE, NoExc)>>, req.epoch0)
    /\ UNCHANGED <<phase, env, blockchain_service, txns, prev, fmt>>

(***************************************************************************)
(* The rest of the world: wallets transact with the contract directly      *)
(***************************************************************************)
\* the contract state after wallet w paid for a subscription
Subscribed(ch, w, rec) ==
    [ch EXCEPT !.wallets[w] = rec,
               !.totalSubscribers = ch.totalSubscribers + 1,
               !.totalRevenue = ch.totalRevenue + ch.price,
               !.balance = ch.balance + ch.price]

ExternalSubscribe(w, rec) ==
    /\ phase = "serving" /\ txns < MaxExternalTxns
    /\ chain' = Subscribed(chain, w, rec)
    /\ txns' = txns + 1
    /\ UNCHANGED <<phase, env, blockchain_service, req, resp, prev, fmt>>

ExternalCancel(w) ==
    /\ phase = "serving" /\ txns < MaxExternalTxns
    /\ chain.wallets[w].isActive
    /\ chain' = [chain EXCEPT !.wallets[w].isActive = FALSE,
                              !.wallets[w].remaining = 0]
    /\ txns' = txns + 1
    /\ UNCHANGED <<phase, env, blockchain_service, req, resp, prev, fmt>>

Next ==
    \/ ImportBlockchain
    \/ StartupValidate
    \/ StartupCheckService
    \/ health_check
    \/ \E route \in WalletRoutes \cup {"/unknown"} : not_found(route)
    \/ \E a \in RequestAddresses : get_subscription_status(a)
    \/ \E a \in RequestAddresses : get_subscription_expiry(a)
    \/ \E a \in RequestAddresses : get_remaining_time(a)
    \/ call_is_subscription_active
    \/ call_get_subscription_expiry
    \/ call_get_remaining_time
    \/ get_contract_stats
    \/ BlockchainService_get_contract_stats
    \/ \E w \in Wallets, rec \in ActiveRecords : ExternalSubscribe(w, rec)
    \/ \E w \in Wallets : ExternalCancel(w)

Spec == Init /\ [][Next]_vars

(***************************************************************************)
(* The formatting helpers on their own, over bounded inputs                *)
(***************************************************************************)
DurationInputs ==
    { d * 86400 + h * 3600 + m * 60 + s :
        d \in 0..MaxUnits, h \in 0..MaxUnits, m \in 0..MaxUnits, s \in {0, 1, 30, 59} }

TimestampInputs ==
    { 0, 1, 86399, 951782400, 1709251199, 1735689599, 1737216000, 2147400000 }

apply_format_duration(seconds) ==
    /\ fmt' = [fn |-> "format_duration", arg |-> seconds,
               out |-> format_duration(seconds)]
    /\ UNCHANGED <<phase, env, blockchain_service, chain, txns, req, resp, prev>>

apply_format_timestamp(timestamp) ==
    /\ fmt' = [fn |-> "format_timestamp", arg |-> timestamp,
               out |-> format_timestamp(timestamp, env.utcoffset)]
    /\ UNCHANGED <<phase, env, blockchain_service, chain, txns, req, resp, prev>>

NextFormat ==
    \/ \E s \in DurationInputs : apply_format_duration(s)
    \/ \E t \in TimestampInputs : apply_format_timestamp(t)

SpecFormat == Init /\ [][NextFormat]_vars

(***************************************************************************)
(* Pairs of consecutive requests on one chain state: prev keeps the answer *)
(* to the request before the latest one                                    *)
(***************************************************************************)
CaseAddresses == {W1Lower, W1Mixed, NonHexLower, NonHexUpper}

InitCase ==
    /\ env \in {e \in Environments :
                  Config_validate(e) /\ ServiceAvailable(BlockchainService_init(e))}
    /\ phase = "serving"
    /\ blockchain_service = BlockchainService_init(env)
    /\ \E w \in Wallets :
         \/ chain = ChainInit /\ txns = 0
         \/ \E rec \in ActiveRecords :
              chain = Subscribed(ChainInit, w, rec) /\ txns = 1
    /\ req = Idle
    /\ resp = NoResp
    /\ prev = NoResp
    /\ fmt = NoFmt

get_subscription_status_next(wallet_address) ==
    RouteEnter("/status", wallet_address) /\ prev' = resp

get_subscription_expiry_next(wallet_address) ==
    RouteEnter("/expiry", wallet_address) /\ prev' = resp

get_remaining_time_next(wallet_address) ==
    RouteEnter("/remaining", wallet_address) /\ prev' = resp

NextCase ==
    \/ \E a \in CaseAddresses : get_subscription_status_next(a)
    \/ \E a \in CaseAddresses : get_subscription_expiry_next(a)
    \/ \E a \in CaseAddresses : get_remaining_time_next(a)
    \/ call_is_subscription_active
    \/ call_get_subscription_expiry
    \/ call_get_remaining_time

SpecCase == InitCase /\ [][NextCase]_vars

(***************************************************************************)
(* Properties                                                              *)
(***************************************************************************)
\* the message the gateway owes to an address of the wrong shape
ShapeError(address) ==
    IF address = <<>> THEN "Address is required"
    ELSE IF ~(Len(address) >= 2 /\ SubSeq(address, 1, 2) = <<"0", "x">>)
         THEN "Address must start with 0x"
    ELSE IF Len(address) # 42 THEN "Address must be 42 characters long"
    ELSE "well-shaped"

FailedReads(r) == {i \in DOMAIN r.reads : r.reads[i].outcome # "ok"}

\* C1 as stated: on /status, /expiry and /remaining an address that is empty,
\* lacks the '0x' prefix or is not 42 characters long is answered with 400
\* and the message of the first failing check (empty, prefix, length), and no
\* Chain Reader operation is invoked for it.
C1_MalformedAddressRejected ==
    /\ req.route \in WalletRoutes => ShapeError(req.addr) = "well-shaped"
    /\ (resp.route \in WalletRoutes /\ ShapeError(resp.addr) # "well-shaped")
          => /\ resp.status = 400
             /\ resp.body = [error |-> ShapeError(resp.addr)]
             /\ resp.ops = <<>>
             /\ resp.reads = <<>>

\* C1 amended: a non-empty address that lacks the '0x' prefix or is not 42
\* characters long is answered with 400 and the message of the first failing
\* check, and no Chain Reader operation is invoked; an empty address segment
\* matches no route and is answered 404 "Endpoint not found", also without
\* any Chain Reader operation.
C1_MalformedAddressNeverRead ==
    /\ req.route \in WalletRoutes => ShapeError(req.addr) = "well-shaped"
    /\ (resp.route \in WalletRoutes /\ ShapeError(resp.addr) # "well-shaped")
          => /\ resp.ops = <<>>
             /\ resp.reads = <<>>
             /\ IF resp.addr = <<>>
                THEN resp.status = 404 /\ resp.body.error = "Endpoint not found"
                ELSE resp.status = 400 /\ resp.body = [error |-> ShapeError(resp.addr)]

C1_Witness ==
    /\ resp.route = "/status"
    /\ Len(resp.addr) = 41
    /\ resp.status = 400
    /\ resp.body = [error |-> "Address must be 42 characters long"]

\* C2: on the per-wallet routes the status is 400 only when the address fails
\* the gateway's check or the Chain Reader's normalisation; a request in which
\* a remote read failed is answered 500 with exactly the generic message.
C2_ErrorMapping ==
    resp.route \in WalletRoutes =>
        /\ resp.status = 400 =>
              \/ ShapeError(resp.addr) # "well-shaped"
              \/ ~to_checksum_address(resp.addr).ok
        /\ FailedReads(resp) # {} =>
              resp.status = 500 /\ resp.body = GenericError

\* both answers are present and belong to two requests of one route whose
\* addresses differ at most in letter case, with the same chain state and the
\* same outcomes of the remote reads
CasePair ==
    /\ prev.route \in WalletRoutes
    /\ resp.route = prev.route
    /\ ShapeError(prev.addr) = "well-shaped"
    /\ ShapeError(resp.addr) = "well-shaped"
    /\ Lower(prev.addr) = Lower(resp.addr)
    /\ prev.addr # resp.addr
    /\ prev.epoch = resp.epoch /\ resp.epoch >= 0
    /\ prev.reads = resp.reads

\* the body without what repeats the address as it was supplied
ChainDerived(r) ==
    IF r.status = 200
    THEN [f \in (DOMAIN r.body) \ {"wallet_address"} |-> r.body[f]]
    ELSE IF r.status = 400
         THEN [error_is_echo |->
                 r.body = [error |-> "Invalid wallet address: " \o Str(r.addr)]]
    ELSE r.body

\* C3 as stated: two spellings of one 42-character '0x' address that differ
\* only in letter case get the same status code and the same response body.
C3_CaseVariantsIdentical ==
    CasePair => prev.status = resp.status /\ prev.body = resp.body

\* C3 amended: the two spellings get the same status code and the same
\* chain-derived fields; the body differs only where it repeats the address
\* as supplied (wallet_address, and the "Invalid wallet address: ..." text).
C3_CaseVariantsSameResult ==
    CasePair => /\ prev.status = resp.status
                /\ ChainDerived(prev) = ChainDerived(resp)
                /\ resp.status = 400 => ChainDerived(resp).error_is_echo

C3_Witness ==
    /\ CasePair
    /\ resp.route = "/status"
    /\ resp.status = 200
    /\ resp.body.is_active
    /\ prev.body.wallet_address # resp.body.wallet_address

\* one component of a duration as the claim words it
Component(n, unit) ==
    IF n = 0 THEN <<>>
    ELSE IF n = 1 THEN <<"1 " \o unit>>
    ELSE <<ToString(n) \o " " \o unit \o "s">>

RECURSIVE Joined(_)
Joined(parts) ==
    IF Len(parts) = 0 THEN ""
    ELSE Joined(SubSeq(parts, 1, Len(parts) - 1))
         \o (IF Len(parts) > 1 THEN ", " ELSE "") \o parts[Len(parts)]

DurationText(s) ==
    LET parts == Component(s \div 86400, "day")
                 \o Component((s % 86400) \div 3600, "hour")
                 \o Component((s % 3600) \div 60, "minute")
    IN  IF s = 0 THEN "Expired"
        ELSE IF parts = <<>> THEN "Less than a minute"
        ELSE Joined(parts)

\* C4: format_duration(s) is "Expired" for 0; otherwise days, hours and
\* minutes by floor division (seconds dropped), each nonzero one as
\* "<n> <unit>" with the unit singular exactly at 1, joined by ", " in that
\* order; "Less than a minute" when all three are zero.  59 -> "Less than a
\* minute", 90 -> "1 minute", 3661 -> "1 hour, 1 minute", 90000 -> "1 day,
\* 1 hour".
C4_FormatDuration ==
    /\ fmt.fn = "format_duration" =>
          /\ fmt.out = DurationText(fmt.arg)
          /\ fmt.arg = 59 => fmt.out = "Less than a minute"
          /\ fmt.arg = 90 => fmt.out = "1 minute"
          /\ fmt.arg = 3661 => fmt.out = "1 hour, 1 minute"
          /\ fmt.arg = 90000 => fmt.out = "1 day, 1 hour"
    /\ {59, 90, 3661, 90000} \subseteq DurationInputs

C4_Witness ==
    /\ fmt.fn = "format_duration"
    /\ fmt.arg = 2 * 86400 + 3600 + 2 * 60 + 59
    /\ fmt.out = "2 days, 1 hour, 2 minutes"

\* C5: format_timestamp(t) is "Never subscribed" for 0 and otherwise the UTC
\* date and time of t as 'YYYY-MM-DD HH:MM:SS UTC', whatever the server's
\* time zone.
C5_FormatTimestampUTC ==
    fmt.fn = "format_timestamp" =>
        fmt.out = IF fmt.arg = 0 THEN "Never subscribed" ELSE Strftime(fmt.arg)

\* C6: /stats answers 500 with exactly {"error": "Internal server error"}
\* whenever one of its remote reads fails, and 200 with the stats struct when
\* all of them succeed.
C6_StatsErrorMapping ==
    resp.route = "/stats" =>
        IF FailedReads(resp) # {}
        THEN resp.status = 500 /\ resp.body = [error |-> "Internal server error"]
        ELSE /\ resp.status = 200
             /\ DOMAIN resp.body =
                  { "subscription_price_wei", "subscription_price_eth",
                    "subscription_duration_seconds", "subscription_duration_days",
                    "total_subscribers", "total_revenue_wei", "total_revenue_eth",
                    "contract_balance_wei", "contract_balance_eth",
                    "contract_address" }
             /\ resp.body.subscription_price_wei = chain.price
             /\ resp.body.subscription_duration_seconds = chain.duration
             /\ resp.body.contract_address = Str(blockchain_service.contract_address)

C6_Witness ==
    /\ resp.route = "/stats"
    /\ resp.status = 500
    /\ Len(resp.reads) = 6
    /\ FailedReads(resp) = {6}

\* the configuration and the environment are what a working service needs
StartupSound ==
    /\ env.SEPOLIA_RPC_URL # None
    /\ env.CONTRACT_ADDRESS.set
    /\ Len(env.CONTRACT_ADDRESS.value) >= 2
    /\ SubSeq(env.CONTRACT_ADDRESS.value, 1, 2) = <<"0", "x">>
    /\ env.connected
    /\ env.abi = "ok"
    /\ ~blockchain_service.none

\* C7: start-up is fail-fast: with the endpoint URL missing, the contract
\* address missing or not '0x'-prefixed, the connection not live or the
\* contract interface not loadable, the process exits and no route handler
\* ever runs.
C7_FailFastStartup ==
    /\ (phase = "serving" \/ req # Idle \/ resp # NoResp) => StartupSound
    /\ (phase = "exited" \/ phase = "serving") =>
          (phase = "exited" <=> ~StartupSound)

C7_Witness ==
    /\ phase = "exited"
    /\ env.SEPOLIA_RPC_URL # None
    /\ env.CONTRACT_ADDRESS = Setting(ContractLower)
    /\ ~env.connected
    /\ blockchain_service.none
    /\ resp = NoResp

\* C8: every remote call made for a route is a read: a step of a handler
\* never changes the contract state, every logged remote call is an eth_call,
\* and the Chain Reader object (contract_address) stays as start-up left it.
C8_ReadOnly ==
    [][ /\ (req' # req \/ resp' # resp) => chain' = chain
        /\ phase = "serving" => blockchain_service' = blockchain_service
        /\ \A i \in DOMAIN req'.reads : req'.reads[i].kind = "call"
        /\ \A i \in DOMAIN resp'.reads : resp'.reads[i].kind = "call"
        /\ resp' # resp /\ resp'.route # "none" => req' = Idle ]_vars

C8_Witness ==
    /\ resp.route = "/status"
    /\ resp.status = 200
    /\ Len(resp.reads) = 3
    /\ chain.totalSubscribers = 1
    /\ chain.balance = chain.price

\* C9: a Chain Reader operation returns a value or fails as InvalidAddress
\* (address cannot be normalised) or RemoteCallFailure; a failed remote read
\* never reaches the gateway as the transport's own exception, and never as
\* InvalidAddress for an address that normalises.
C9_ReaderErrorKinds ==
    \A i \in DOMAIN resp.ops :
        LET o == resp.ops[i]
            invalidAddress    == o.exc.type = "ValueError"
            remoteCallFailure == o.exc.type = "Exception"
        IN  o.raised =>
              /\ ~o.exc.raw
              /\ invalidAddress \/ remoteCallFailure
              /\ invalidAddress => ~o.normalized

\* how often field f is read in the sequence of reads
Occurrences(reads, f) == Cardinality({i \in DOMAIN reads : reads[i] = f})

\* C10: one invocation of a per-wallet operation issues exactly one remote
\* read, and one invocation of get_contract_stats reads each contract field
\* exactly once, never twice.
C10_OneReadPerField ==
    \A i \in DOMAIN resp.ops :
        LET o == resp.ops[i]
        IN  IF o.method = "get_contract_stats"
            THEN /\ \A f \in {"SUBSCRIPTION_PRICE", "SUBSCRIPTION_DURATION",
                              "totalSubscribers", "totalRevenue", "getBalance"} :
                       /\ Occurrences(o.reads, f) <= 1
                       /\ ~o.raised => Occurrences(o.reads, f) = 1
            ELSE o.normalized => Len(o.reads) = 1

\* C11: in every successful /stats response each display-unit field is the
\* conversion of the smallest-unit field of the same response (price, revenue
\* and balance in ether from wei, duration in days from seconds), also when
\* external transactions change the contract between the reads of the request.
C11_StatsSnapshotConsistent ==
    (resp.route = "/stats" /\ resp.status = 200) =>
        /\ resp.body.subscription_price_eth.num = resp.body.subscription_price_wei
        /\ resp.body.total_revenue_eth.num = resp.body.total_revenue_wei
        /\ resp.body.contract_balance_eth.num = resp.body.contract_balance_wei
        /\ resp.body.subscription_duration_days.num
              = resp.body.subscription_duration_seconds
        /\ resp.body.subscription_duration_days.den = 86400

====
